---- MODULE Spec2Model ----
(***************************************************************************)
(* DocuMind: a model of the browser front end (src/App.tsx and its        *)
(* revision src/unnamed/part_001) and of the service helpers              *)
(* (src/services/geminiService.ts and its revision src/unnamed/part_000). *)
(*                                                                         *)
(* The specifications that share the module:                               *)
(*   SpecJSON  - extractJSON applied to bounded response texts             *)
(*   SpecRequest - the request processMultimodalIntel builds               *)
(*   SpecBase64  - encodeAudio followed by decodeBase64Audio               *)
(*   SpecLive  - the live voice session and its playback queue             *)
(*   SpecDoc, SpecCreative, SpecAux - the request handlers of the UI and   *)
(*               their remote calls, one specification per group of panels *)
(***************************************************************************)
EXTENDS Integers, Sequences, FiniteSets, TLC

(***************************************************************************)
(* Bounds of the model                                                     *)
(***************************************************************************)
\* longest response text, in tokens
MaxLen == 6
\* live sessions that can be started
MaxSessions == 2
\* audio messages received over all live sessions
MaxChunks == 2
\* longest decoded audio buffer, in clock ticks
MaxDur == 2
\* last tick of the audio context clock
MaxTime == 2
\* microphone frames delivered to the audio callback
MaxFrames == 2
\* clicks on a narration button
MaxNarrations == 2
\* the captured samples are taken in steps of 1 / MaxSample
MaxSample == 100
\* 16-bit samples in the data handed to decodeAudioData
MaxSamples == 4
\* channels of the buffer decodeAudioData builds
MaxChannels == 2
\* handler invocations that start remote work (execute, generate, send, ...)
MaxTasks == 2
\* files the user can pick
NumFiles == 2
\* status polls of one video operation
MaxPolls == 1
\* longest byte array handed to encodeAudio
MaxBytes == 3

(***************************************************************************)
(* State                                                                   *)
(***************************************************************************)
VARIABLES
    \* --- extractJSON ---
    jsonText,       \* the response text handed to extractJSON
    jsonPc,         \* "input" before the call, "done" after it
    jsonOut,        \* outcome of the call: a value returned or an Error thrown
    \* --- processMultimodalIntel: the request ---
    reqConfig,      \* the config parameter: useSearch, useMaps, useThinking
    reqMime,        \* the mimeType parameter
    reqPc,          \* "input" before the call, "sent" once generateContent is called
    reqOut,         \* the argument of ai.models.generateContent
    \* --- encodeAudio / decodeBase64Audio ---
    b64Bytes,       \* the Uint8Array handed to encodeAudio
    b64Pc,          \* "input", "encoded", "decoded"
    b64Text,        \* the string encodeAudio returned
    b64Back,        \* the Uint8Array decodeBase64Audio returned
    \* --- onaudioprocess: the conversion of a captured sample ---
    pcmSample,      \* inputData[i], as a count of 1/MaxSample steps
    pcmPc,          \* "input" before the assignment, "done" after it
    pcmOut,         \* int16[i] after the assignment
    \* --- decodeAudioData ---
    decData,        \* the data parameter: a Uint8Array
    decChannels,    \* the numChannels parameter
    decPc,          \* "input" before the call, "done" after it
    decOut,         \* outcome of the call: an AudioBuffer or an exception
    \* --- live voice session ---
    isLiveActive,       \* useState(false)
    liveSessionRef,     \* useRef(null): 0 is null, else a session
    audioContextRef,    \* useRef(null): FALSE is null, TRUE an AudioContext
    nextStartTimeRef,   \* useRef(0)
    currentTime,        \* audioContextRef.current.currentTime
    sessSt,             \* per session: progress of toggleLiveVoiceInterface
    sessStream,         \* per session: the MediaStream of getUserMedia
    sessProc,           \* per session: scriptProcessor wired by onopen
    closeCalls,         \* per session: calls to session.close()
    oncloseDue,         \* sessions closed locally whose onclose has not run yet
    sentOpen,           \* per session: frames sent while the session was open
    sentClosed,         \* per session: frames encoded and sent after its close
    decoding,           \* onmessage handlers suspended in await decodeAudioData
    received,           \* audio messages received so far
    scheduled,          \* source.start(t) calls: <<[start, dur]>> in call order
    lastAct,            \* "toggle" when toggleLiveVoiceInterface ran last
    outbound,           \* per session: frames handed to sendRealtimeInput, in call order
    tts,                \* handleTTSNarration of part_001: invocations and where they wait
    \* --- UI state and request handlers ---
    build,          \* which revision runs: "App" (App.tsx) or "part_001"
    mode,           \* useState<AppMode>('DOC_INTEL')
    state,          \* useState<AppState>: file, previewUrl, step, result, error
    activeTab,      \* useState('sections')
    creativeOutput, \* useState(null): 0 is null, else the task whose media it is
    transcript,     \* useState(''): 0 is '', else the task whose text it is
    hfResults,      \* useState(null) of part_001: 0 is null
    chatInput,      \* useState('')
    chatHistory,    \* useState([]): <<[role, task]>>
    keySelected,    \* what window.aistudio.hasSelectedApiKey() resolves to
    isKeySetup,     \* useState(false) of part_001, set by its mount effect
    tasks,          \* per handler invocation: its kind and where it is suspended
    calls           \* per handler invocation: remote calls awaiting a response

jsonVars == <<jsonText, jsonPc, jsonOut>>

reqVars == <<reqConfig, reqMime, reqPc, reqOut>>

b64Vars == <<b64Bytes, b64Pc, b64Text, b64Back>>

pcmVars == <<pcmSample, pcmPc, pcmOut>>

decVars == <<decData, decChannels, decPc, decOut>>

\* the state of the service helpers
fnVars == <<jsonVars, reqVars, b64Vars, pcmVars, decVars>>

liveVars == <<isLiveActive, liveSessionRef, audioContextRef, nextStartTimeRef,
              currentTime, sessSt, sessStream, sessProc, closeCalls, oncloseDue,
              sentOpen, sentClosed, decoding, received, scheduled, lastAct,
              outbound, tts>>

uiVars == <<build, mode, state, activeTab, creativeOutput, transcript, hfResults,
            chatInput, chatHistory, keySelected, isKeySetup, tasks, calls>>

vars == <<fnVars, liveVars, uiVars>>

(***************************************************************************)
(* extractJSON  (geminiService.ts 5-19)                                    *)
(*                                                                         *)
(* A response text is a sequence of tokens:                                *)
(*   "{" "}"  the braces                                                   *)
(*   "k"      a member name with its colon    ("name":)                    *)
(*   "v"      a scalar value                  (1, "x", true, null)         *)
(*   "w"      white space                                                  *)
(*   "t"      any other text: back-ticks of a markdown fence, prose        *)
(* A parsed value is written as the token sequence of its canonical text,  *)
(* which has no white space.                                               *)
(***************************************************************************)
Chars == {"{", "}", "k", "v", "w", "t"}

Texts == UNION {[1..n -> Chars] : n \in 0..MaxLen}

NoValue == <<>>

Returned(v) == [ok |-> TRUE, val |-> v, err |-> ""]

Thrown(m) == [ok |-> FALSE, val |-> NoValue, err |-> m]

RECURSIVE SkipWs(_, _)
SkipWs(s, i) == IF i <= Len(s) /\ s[i] = "w" THEN SkipWs(s, i + 1) ELSE i

ParseFail == [ok |-> FALSE, next |-> 0, val |-> NoValue]

\* the JSON value starting at position i of s (white space already skipped)
RECURSIVE ParseValue(_, _)
ParseValue(s, i) ==
    IF i > Len(s) THEN ParseFail
    ELSE IF s[i] = "v" THEN [ok |-> TRUE, next |-> i + 1, val |-> <<"v">>]
    ELSE IF s[i] = "{" THEN
        LET j == SkipWs(s, i + 1) IN
        IF j > Len(s) THEN ParseFail
        ELSE IF s[j] = "}" THEN [ok |-> TRUE, next |-> j + 1, val |-> <<"{", "}">>]
        ELSE IF s[j] = "k" THEN
            LET r == ParseValue(s, SkipWs(s, j + 1)) IN
            IF ~r.ok THEN ParseFail
            ELSE LET e == SkipWs(s, r.next) IN
                 IF e <= Len(s) /\ s[e] = "}"
                 THEN [ok |-> TRUE, next |-> e + 1,
                       val |-> <<"{", "k">> \o r.val \o <<"}">>]
                 ELSE ParseFail
        ELSE ParseFail
    ELSE ParseFail

\* JSON.parse: one value, white space around it, nothing else
JSONparse(s) ==
    LET r == ParseValue(s, SkipWs(s, 1)) IN
    IF r.ok /\ SkipWs(s, r.next) = Len(s) + 1
    THEN [ok |-> TRUE, val |-> r.val]
    ELSE [ok |-> FALSE, val |-> NoValue]

BracePositions(s, c) == {i \in 1..Len(s) : s[i] = c}

Min(S) == CHOOSE x \in S : \A y \in S : x <= y

Max(S) == CHOOSE x \in S : \A y \in S : x >= y

\* text.match(/\{[\s\S]*\}/): the first "{" and, the star being greedy, the
\* last "}" after it; <<0, 0>> when there is no match
\* (variant: a lazy star, /\{[\s\S]*?\}/, stops at the first "}")
RegexMatchLazy(s) ==
    LET opens == BracePositions(s, "{") IN
    IF opens = {} THEN <<0, 0>>
    ELSE LET a == Min(opens)
             closes == {i \in BracePositions(s, "}") : i > a} IN
         IF closes = {} THEN <<0, 0>> ELSE <<a, Min(closes)>>

\* (variant: no closing brace in the pattern, /\{[\s\S]*/, runs to the end)
RegexMatchToEnd(s) ==
    LET opens == BracePositions(s, "{") IN
    IF opens = {} THEN <<0, 0>> ELSE <<Min(opens), Len(s)>>

RegexMatch(s) ==
    LET opens == BracePositions(s, "{") IN
    IF opens = {} THEN <<0, 0>>
    ELSE LET a == Min(opens)
             closes == {i \in BracePositions(s, "}") : i > a} IN
         IF closes = {} THEN <<0, 0>> ELSE <<a, Max(closes)>>

\* (variant: the inner catch is missing its own message, every failure ends
\* in the last throw)
extractJSONOneError(text) ==
    LET direct == JSONparse(text) IN
    IF direct.ok THEN Returned(direct.val)
    ELSE LET m == RegexMatch(text) IN
         IF m # <<0, 0>> /\ JSONparse(SubSeq(text, m[1], m[2])).ok
         THEN Returned(JSONparse(SubSeq(text, m[1], m[2])).val)
         ELSE Thrown("No valid JSON found in response")

extractJSON(text) ==
    LET direct == JSONparse(text) IN
    IF direct.ok THEN Returned(direct.val)
    ELSE LET m == RegexMatch(text) IN
         IF m # <<0, 0>>
         THEN LET inner == JSONparse(SubSeq(text, m[1], m[2])) IN
              IF inner.ok THEN Returned(inner.val)
              ELSE Thrown("Failed to parse response JSON")
         ELSE Thrown("No valid JSON found in response")

JsonInit ==
    /\ jsonText \in Texts
    /\ jsonPc = "input"
    /\ jsonOut = Thrown("")

JsonIdle ==
    /\ jsonText = <<>>
    /\ jsonPc = "input"
    /\ jsonOut = Thrown("")

\* one call of extractJSON on the response text
ExtractCall ==
    /\ jsonPc = "input"
    /\ jsonPc' = "done"
    /\ jsonOut' = extractJSON(jsonText)
    /\ UNCHANGED jsonText

NextJSON ==
    ExtractCall /\ UNCHANGED <<reqVars, b64Vars, pcmVars, decVars, liveVars, uiVars>>

(***************************************************************************)
(* processMultimodalIntel: the request  (geminiService.ts 27-83,           *)
(* part_000 28-84)                                                         *)
(***************************************************************************)
\* 31-35: a member of config is an optional boolean
Flags == {"true", "false", "undefined"}

\* the condition of an if or of ?: on such a member
Truthy(x) == x = "true"

Configs == [useSearch : Flags, useMaps : Flags, useThinking : Flags]

\* 29: file.type of the document, image or video
MimeTypes == {"application/pdf", "image/png", "video/mp4"}

\* 54
ThinkingBudget == 32768

\* 38-40: tools, in the order of the two push calls
ToolsOf(config) ==
    (IF Truthy(config.useSearch) THEN <<"googleSearch">> ELSE <<>>)
    \o (IF Truthy(config.useMaps) THEN <<"googleMaps">> ELSE <<>>)

\* 42-55: generationConfig; a member that is not set is <<>>
GenerationConfig(config) ==
    [tools |-> ToolsOf(config),
     responseMimeType |-> IF ~Truthy(config.useMaps)
                          THEN <<"application/json">> ELSE <<>>,
     thinkingConfig |-> IF Truthy(config.useThinking)
                        THEN <<ThinkingBudget>> ELSE <<>>]

\* 58 (part_000 57)
\* (variant: the model does not depend on the maps tool)
ModelNamePro(config) == "gemini-3-pro-preview"

ModelName(config) ==
    IF Truthy(config.useMaps) THEN "gemini-2.5-flash-latest"
    ELSE "gemini-3-pro-preview"

\* 57-83: the argument of generateContent
RequestOf(config, mimeType) ==
    [model |-> ModelName(config),
     mimeType |-> mimeType,
     config |-> GenerationConfig(config)]

NoRequest ==
    [model |-> "", mimeType |-> "",
     config |-> [tools |-> <<>>, responseMimeType |-> <<>>, thinkingConfig |-> <<>>]]

ReqInit ==
    /\ reqConfig \in Configs
    /\ reqMime \in MimeTypes
    /\ reqPc = "input"
    /\ reqOut = NoRequest

ReqIdle ==
    /\ reqConfig = [useSearch |-> "undefined", useMaps |-> "undefined",
                    useThinking |-> "undefined"]
    /\ reqMime = "application/pdf"
    /\ reqPc = "input"
    /\ reqOut = NoRequest

\* 37-57: processMultimodalIntel up to its call of generateContent
BuildRequest ==
    /\ reqPc = "input"
    /\ reqPc' = "sent"
    /\ reqOut' = RequestOf(reqConfig, reqMime)
    /\ UNCHANGED <<reqConfig, reqMime>>

NextRequest ==
    BuildRequest /\ UNCHANGED <<jsonVars, b64Vars, pcmVars, decVars, liveVars, uiVars>>

(***************************************************************************)
(* encodeAudio and decodeBase64Audio  (geminiService.ts 192-198, 211-215)  *)
(*                                                                         *)
(* A binary string is the sequence of its UTF-16 code units, a base64      *)
(* string the sequence of the values 0..63 of its letters, with Pad for    *)
(* the letter "=".                                                         *)
(***************************************************************************)
\* a Uint8Array element
Bytes == 0..255

\* the values the neighbours of a byte take: the ends of the range and the
\* values around bit 7
ByteValues == {0, 127, 128, 255}

\* the letter "=" of a base64 string
Pad == 64

\* 213: String.fromCharCode(x): the code unit ToUint16(x)
\* (variant: the code is cut to 7 bits)
FromCharCode7(x) == x % 128

FromCharCode(x) == x % 65536

\* 196: bytes[i] = ...: a Uint8Array element keeps the value modulo 256
ToUint8(x) == x % 256

\* btoa of three code units below 256: four letters
Quad(a, b, c) ==
    <<a \div 4, (a % 4) * 16 + b \div 16, (b % 16) * 4 + c \div 64, c % 64>>

\* 214: btoa; the last group of one or two units is padded
RECURSIVE Btoa(_)
Btoa(s) ==
    IF Len(s) = 0 THEN <<>>
    ELSE IF Len(s) = 1 THEN <<s[1] \div 4, (s[1] % 4) * 16, Pad, Pad>>
    ELSE IF Len(s) = 2
         THEN <<s[1] \div 4, (s[1] % 4) * 16 + s[2] \div 16, (s[2] % 16) * 4, Pad>>
    ELSE Quad(s[1], s[2], s[3]) \o Btoa(SubSeq(s, 4, Len(s)))

\* 193: atob of a padded base64 string: three code units from four letters,
\* one or two from a padded group
RECURSIVE Atob(_)
Atob(e) ==
    IF Len(e) < 4 THEN <<>>
    ELSE LET u1 == e[1] * 4 + e[2] \div 16
             u2 == (e[2] % 16) * 16 + e[3] \div 4
             u3 == (e[3] % 4) * 64 + e[4] IN
         IF e[3] = Pad THEN <<u1>>
         ELSE IF e[4] = Pad THEN <<u1, u2>>
         ELSE <<u1, u2, u3>> \o Atob(SubSeq(e, 5, Len(e)))

\* 211-215: the code units are below 256, so btoa does not throw
encodeAudio(bytes) == Btoa([i \in 1..Len(bytes) |-> FromCharCode(bytes[i])])

\* 192-198
decodeBase64Audio(base64) ==
    LET binaryString == Atob(base64) IN
    [i \in 1..Len(binaryString) |-> ToUint8(binaryString[i])]

\* the arrays of the model: the empty one and, up to MaxBytes long, every
\* byte at every index next to neighbours out of ByteValues
B64Init ==
    /\ \/ b64Bytes = <<>>
       \/ \E n \in 1..MaxBytes : \E b \in [1..n -> ByteValues], i \in 1..n, x \in Bytes :
             b64Bytes = [b EXCEPT ![i] = x]
    /\ b64Pc = "input"
    /\ b64Text = <<>>
    /\ b64Back = <<>>

B64Idle ==
    /\ b64Bytes = <<>>
    /\ b64Pc = "input"
    /\ b64Text = <<>>
    /\ b64Back = <<>>

\* App.tsx 194: encodeAudio(new Uint8Array(int16.buffer))
EncodeCall ==
    /\ b64Pc = "input"
    /\ b64Pc' = "encoded"
    /\ b64Text' = encodeAudio(b64Bytes)
    /\ UNCHANGED <<b64Bytes, b64Back>>

\* App.tsx 206: decodeBase64Audio(b64), here of the string just encoded
DecodeCall ==
    /\ b64Pc = "encoded"
    /\ b64Pc' = "decoded"
    /\ b64Back' = decodeBase64Audio(b64Text)
    /\ UNCHANGED <<b64Bytes, b64Text>>

NextBase64 ==
    /\ UNCHANGED <<jsonVars, reqVars, pcmVars, decVars, liveVars, uiVars>>
    /\ \/ EncodeCall
       \/ DecodeCall

(***************************************************************************)
(* PCM conversion of the microphone frame  (App.tsx 189-192)               *)
(***************************************************************************)
\* the captured samples are the multiples of 1/MaxSample in [-1.0, 1.0]
Samples == (-MaxSample)..MaxSample

\* truncation toward zero of the quotient a / b, b > 0
Trunc(a, b) == IF a >= 0 THEN a \div b ELSE -((-a) \div b)

\* the value an Int16Array element holds after x is assigned to it: the
\* integer part of x modulo 2^16, read as a signed 16-bit number
\* (variant: the value is clamped to the 16-bit range)
ToInt16Clamped(x) == IF x > 32767 THEN 32767 ELSE IF x < -32768 THEN -32768 ELSE x

ToInt16(x) ==
    LET m == x % 65536 IN IF m >= 32768 THEN m - 65536 ELSE m

\* 192: int16[i] = inputData[i] * 32768, for inputData[i] = n / MaxSample
FloatTo16BitPCM(n) == ToInt16(Trunc(n * 32768, MaxSample))

PcmInit ==
    /\ pcmSample \in Samples
    /\ pcmPc = "input"
    /\ pcmOut = 0

PcmIdle ==
    /\ pcmSample = 0
    /\ pcmPc = "input"
    /\ pcmOut = 0

\* 192: one sample of the frame is converted
ConvertSample ==
    /\ pcmPc = "input"
    /\ pcmPc' = "done"
    /\ pcmOut' = FloatTo16BitPCM(pcmSample)
    /\ UNCHANGED pcmSample

NextPcm ==
    ConvertSample /\ UNCHANGED <<jsonVars, reqVars, b64Vars, decVars, liveVars, uiVars>>

(***************************************************************************)
(* decodeAudioData  (geminiService.ts 200-209)                             *)
(***************************************************************************)
\* the 16-bit samples the inputs are built from: 32767 and -32768, low byte
\* first
SamplePairs == {<<255, 127>>, <<0, 128>>}

\* 201: element k (from 0) of new Int16Array(data.buffer)
\* (variant: the two bytes are read as an unsigned number)
Uint16At(data, k) == data[2 * k + 1] + 256 * data[2 * k + 2]

Int16At(data, k) == ToInt16(data[2 * k + 1] + 256 * data[2 * k + 2])

\* 207: a sample divided by 32768.0, kept as the fraction num / den
Float32(v) == [num |-> v, den |-> 32768]

\* 200-209: the view throws on an odd byte count, createBuffer on a channel
\* count or a length below 1; else every channel is filled frame by frame
decodeAudioData(data, numChannels) ==
    IF Len(data) % 2 # 0 THEN Thrown("RangeError")
    ELSE LET length == Len(data) \div 2
             frameCount == length \div numChannels
         IN IF numChannels < 1 \/ frameCount < 1 THEN Thrown("NotSupportedError")
            ELSE Returned([channel \in 1..numChannels |->
                     [i \in 1..frameCount |->
                        Float32(Int16At(data, (i - 1) * numChannels + (channel - 1)))]])

\* the inputs: byte arrays of up to MaxSamples samples, one byte of which
\* takes every value, and the channel counts that divide the sample count
DecInit ==
    /\ decChannels \in 1..MaxChannels
    /\ \/ decData = <<>>
       \/ \E n \in 1..MaxSamples :
             /\ n % decChannels = 0
             /\ \E q \in [1..n -> SamplePairs], i \in 1..(2 * n), x \in Bytes :
                   decData = [[j \in 1..(2 * n) |-> q[(j + 1) \div 2][2 - (j % 2)]]
                                 EXCEPT ![i] = x]
    /\ decPc = "input"
    /\ decOut = NoValue

DecIdle ==
    /\ decData = <<>>
    /\ decChannels = 1
    /\ decPc = "input"
    /\ decOut = NoValue

\* App.tsx 206, part_001 269: the call
DecodeAudioCall ==
    /\ decPc = "input"
    /\ decPc' = "done"
    /\ decOut' = decodeAudioData(decData, decChannels)
    /\ UNCHANGED <<decData, decChannels>>

NextDecode ==
    DecodeAudioCall
        /\ UNCHANGED <<jsonVars, reqVars, b64Vars, pcmVars, liveVars, uiVars>>

\* the service helpers before any call
FnIdle == JsonIdle /\ ReqIdle /\ B64Idle /\ PcmIdle /\ DecIdle

(***************************************************************************)
(* UI state and request handlers  (App.tsx 8-169, part_001 7-207)          *)
(***************************************************************************)
Tasks == 1..MaxTasks

Files == 1..NumFiles

NotFoundMsg == "Requested entity was not found"

\* err.message of a rejected remote call
Messages == {NotFoundMsg, "Network error"}

NoError == "<null>"

\* types.ts 14-24: the members of AnalysisResult that come with the data
DataFields == {"markdown", "jsonSchema", "sections", "explanation", "websiteCode"}

\* types.ts 15-23: the members that are not optional
RequiredFields == {"markdown", "jsonSchema", "sections", "explanation"}

\* geminiService.ts 86: the members of extractJSON(response.text || '{}'):
\* the object asked for, with or without websiteCode; an object that lacks
\* the sections and the schema; no member at all, which is what an empty
\* response text and the text {} give
DataShapes ==
    {RequiredFields, DataFields, {"markdown", "explanation"}, {}}

\* state.result: null, or { ...data, groundingUrls: grounding }; a field
\* holds the task whose response supplied it, 0 when it is absent
NullResult == [markdown |-> 0, jsonSchema |-> 0, sections |-> 0, explanation |-> 0,
               websiteCode |-> 0, groundingUrls |-> 0]

\* a handler invocation: kind, the await or callback it is suspended at, the
\* state.file its closure captured, its progress timers, the video operation
\* it polls (op, polls) and the message of the rejection it met
NoTask == [kind |-> "none", pc |-> "idle", file |-> 0, tmr |-> 0, op |-> "none",
           polls |-> 0, fail |-> NoError, media |-> "none"]

\* 10-12, 15, 24-32, 41
UiStart(b) ==
    /\ build = b
    /\ mode = "DOC_INTEL"
    /\ state = [file |-> 0, previewUrl |-> 0, step |-> "IDLE",
                result |-> NullResult, error |-> NoError]
    /\ activeTab = "sections"
    /\ creativeOutput = 0
    /\ transcript = 0
    /\ hfResults = 0
    /\ chatInput = ""
    /\ chatHistory = <<>>
    /\ keySelected \in BOOLEAN
    \* part_001 55-61: the mount effect has stored hasSelectedApiKey()
    /\ isKeySetup = (b = "part_001" /\ keySelected)
    /\ tasks = [t \in Tasks |-> NoTask]
    /\ calls = [t \in Tasks |-> 0]

UiInit == \E b \in {"App", "part_001"} : UiStart(b)

UiIdle ==
    /\ UiStart("App")
    /\ keySelected = FALSE

\* the navigation bar: App.tsx 243, part_001 295
Modes ==
    IF build = "App"
    THEN {"DOC_INTEL", "CREATIVE", "LIVE_VOICE", "CHAT", "TRANSCRIPTION"}
    ELSE {"DOC_INTEL", "CREATIVE", "HUGGING_FACE", "CHAT", "TRANSCRIPTION"}

\* the task a new handler invocation gets
FreeTask(t) ==
    /\ tasks[t].kind = "none"
    /\ \A r \in Tasks : r < t => tasks[r].kind # "none"

\* (variant: the new data is merged into the previous result, which keeps
\* the fields the new data lacks)
ResultOfMerged(prev, t, data) ==
    [f \in DataFields \cup {"groundingUrls"} |->
        IF f \in data \/ f = "groundingUrls" THEN t ELSE prev[f]]

\* 85-89: result: { ...data, groundingUrls: grounding }; grounding is an
\* array in any case (geminiService.ts 87)
ResultOf(prev, t, data) ==
    [f \in DataFields \cup {"groundingUrls"} |->
        IF f \in data \/ f = "groundingUrls" THEN t ELSE 0]

\* 46 (part_001 64): the setState of resetOutputs
\* (variant: the error is left in place)
ResetStateKeepError(st) == [st EXCEPT !.result = NullResult, !.step = "IDLE"]

\* (variant: the step is left in place)
ResetStateKeepStep(st) == [st EXCEPT !.result = NullResult, !.error = NoError]

ResetState(st) == [st EXCEPT !.result = NullResult, !.error = NoError, !.step = "IDLE"]

\* 246 / part_001 71-74: a click on a navigation button
ModeChange(m) ==
    /\ m \in Modes
    /\ mode' = m
    /\ state' = ResetState(state)
    /\ creativeOutput' = 0
    /\ transcript' = 0
    /\ IF build = "part_001"
       THEN chatHistory' = <<>> /\ hfResults' = 0
       ELSE UNCHANGED <<chatHistory, hfResults>>
    /\ UNCHANGED <<build, activeTab, chatInput, keySelected, isKeySetup, tasks, calls>>

\* e.target.files?.[0] of a change event that carries no file
NoFile == 0

\* 51-58: the file input changes
\* (variant: without the test of the file)
FileChangeUnguarded(f) ==
    /\ state' = ResetState([state EXCEPT !.file = f, !.previewUrl = f])
    /\ creativeOutput' = 0
    /\ transcript' = 0
    /\ IF build = "part_001"
       THEN chatHistory' = <<>> /\ hfResults' = 0
       ELSE UNCHANGED <<chatHistory, hfResults>>
    /\ UNCHANGED <<build, mode, activeTab, chatInput, keySelected, isKeySetup, tasks, calls>>

\* 51-58: the file input changes: with a file, the file and its object URL
\* are stored and the outputs reset; without one, nothing happens
FileChange(f) ==
    IF f = NoFile
    THEN UNCHANGED uiVars
    ELSE /\ state' = ResetState([state EXCEPT !.file = f, !.previewUrl = f])
         /\ creativeOutput' = 0
         /\ transcript' = 0
         /\ IF build = "part_001"
            THEN chatHistory' = <<>> /\ hfResults' = 0
            ELSE UNCHANGED <<chatHistory, hfResults>>
         /\ UNCHANGED <<build, mode, activeTab, chatInput, keySelected, isKeySetup,
                        tasks, calls>>

\* 482: a click on a result tab
SetActiveTab(tab) ==
    /\ activeTab # tab
    /\ activeTab' = tab
    /\ UNCHANGED <<build, mode, state, creativeOutput, transcript, hfResults,
                   chatInput, chatHistory, keySelected, isKeySetup, tasks, calls>>

\* ---- document analysis: 67-95 (part_001 93-120) ----

\* 67-72: the click: step := OCR_EXTRACTING, the FileReader starts
RunMultimodalAnalysis(t) ==
    /\ mode = "DOC_INTEL"
    /\ FreeTask(t)
    /\ IF state.file = NoFile
       THEN UNCHANGED <<state, tasks>>
       ELSE /\ state' = [state EXCEPT !.step = "OCR_EXTRACTING"]
            /\ tasks' = [tasks EXCEPT ![t] = [NoTask EXCEPT !.kind = "doc",
                                             !.pc = "read", !.file = state.file]]
    /\ UNCHANGED <<build, mode, activeTab, creativeOutput, transcript, hfResults,
                   chatInput, chatHistory, keySelected, isKeySetup, calls>>

\* 73-83: reader.onload: both progress timers are armed and
\* processMultimodalIntel is called
DocOnload(t) ==
    /\ tasks[t].kind = "doc" /\ tasks[t].pc = "read"
    /\ tasks' = [tasks EXCEPT ![t].pc = "call", ![t].tmr = 1]
    /\ calls' = [calls EXCEPT ![t] = @ + 1]
    /\ UNCHANGED <<build, mode, state, activeTab, creativeOutput, transcript,
                   hfResults, chatInput, chatHistory, keySelected, isKeySetup>>

\* 77: the 1200 ms timer
TimerSemantic(t) ==
    /\ tasks[t].tmr = 1
    /\ tasks' = [tasks EXCEPT ![t].tmr = 2]
    /\ state' = [state EXCEPT !.step = "SEMANTIC_ANALYSIS"]
    /\ UNCHANGED <<build, mode, activeTab, creativeOutput, transcript, hfResults,
                   chatInput, chatHistory, keySelected, isKeySetup, calls>>

\* 78: the 2800 ms timer
TimerReasoning(t) ==
    /\ tasks[t].tmr = 2
    /\ tasks' = [tasks EXCEPT ![t].tmr = 3]
    /\ state' = [state EXCEPT !.step = "MULTIMODAL_REASONING"]
    /\ UNCHANGED <<build, mode, activeTab, creativeOutput, transcript, hfResults,
                   chatInput, chatHistory, keySelected, isKeySetup, calls>>

\* 80-90: the response arrives with its data
DocResponse(t, data) ==
    /\ tasks[t].kind = "doc" /\ tasks[t].pc = "call"
    /\ calls' = [calls EXCEPT ![t] = @ - 1]
    /\ tasks' = [tasks EXCEPT ![t].pc = "done"]
    /\ state' = [state EXCEPT !.result = ResultOf(state.result, t, data),
                              !.step = "COMPLETED"]
    /\ activeTab' = "sections"
    /\ UNCHANGED <<build, mode, creativeOutput, transcript, hfResults, chatInput,
                   chatHistory, keySelected, isKeySetup>>

\* a rejection inside an async reader.onload callback: the try of the
\* handler has been left long ago, nothing catches it
Unhandled(t, m) ==
    /\ calls' = [calls EXCEPT ![t] = @ - 1]
    /\ tasks' = [tasks EXCEPT ![t].pc = "unhandled", ![t].fail = m]
    /\ UNCHANGED <<build, mode, state, activeTab, creativeOutput, transcript,
                   hfResults, chatInput, chatHistory, keySelected, isKeySetup>>

\* 80-83: processMultimodalIntel rejects (the request fails or extractJSON
\* throws) inside reader.onload
DocFailure(t, m) ==
    /\ tasks[t].kind = "doc" /\ tasks[t].pc = "call"
    /\ Unhandled(t, m)

\* ---- creative tasks: 97-127 (part_001 133-165) ----
Creative == {"PRO_GEN", "FLASH_EDIT", "VEO_VIDEO"}

\* 97-98, 100-101, 104-106, 114-115: the click; the FLASH_EDIT button is
\* disabled while no file is selected (317)
ExecuteCreativeTask(t, task) ==
    /\ mode = "CREATIVE"
    /\ task = "FLASH_EDIT" => state.file # 0
    /\ FreeTask(t)
    /\ state' = [state EXCEPT !.step = "PROCESSING"]
    /\ tasks' = [tasks EXCEPT ![t] =
            [NoTask EXCEPT !.kind = task, !.file = state.file,
                           !.pc = IF task = "FLASH_EDIT" THEN "read" ELSE "hasKey"]]
    /\ UNCHANGED <<build, mode, activeTab, creativeOutput, transcript, hfResults,
                   chatInput, chatHistory, keySelected, isKeySetup, calls>>

\* where PRO_GEN and VEO_VIDEO continue once ensureApiKey has returned:
\* 102 generateImagePro, 116-118 the FileReader promise, 119 generateVideoVeo
AfterKey(t) ==
    IF tasks[t].kind = "VEO_VIDEO" /\ tasks[t].file # 0
    THEN /\ tasks' = [tasks EXCEPT ![t].pc = "read"]
         /\ UNCHANGED calls
    ELSE /\ tasks' = [tasks EXCEPT ![t].pc = "call"]
         /\ calls' = [calls EXCEPT ![t] = @ + 1]

\* 60-62: hasSelectedApiKey resolves
\* (variant: the answer is not looked at, the selector is never opened)
HasKeyResolvedSkip(t) ==
    /\ tasks[t].pc = "hasKey"
    /\ AfterKey(t)
    /\ UNCHANGED <<build, mode, state, activeTab, creativeOutput, transcript,
                   hfResults, chatInput, chatHistory, keySelected, isKeySetup>>

HasKeyResolved(t) ==
    /\ tasks[t].pc = "hasKey"
    /\ IF keySelected
       THEN AfterKey(t)
       ELSE /\ tasks' = [tasks EXCEPT ![t].pc = "selectKey"]
            /\ UNCHANGED calls
    /\ UNCHANGED <<build, mode, state, activeTab, creativeOutput, transcript,
                   hfResults, chatInput, chatHistory, keySelected, isKeySetup>>

\* 63 (part_001 88-89): openSelectKey resolves; the user picked a key or
\* dismissed the dialog
SelectKeyResolved(t, picked) ==
    /\ tasks[t].pc = "selectKey"
    /\ keySelected' = (keySelected \/ picked)
    /\ isKeySetup' = (isKeySetup \/ build = "part_001")
    /\ AfterKey(t)
    /\ UNCHANGED <<build, mode, state, activeTab, creativeOutput, transcript,
                   hfResults, chatInput, chatHistory>>

\* 107-109, 116-119, 135-137: the FileReader of FLASH_EDIT, VEO_VIDEO or the
\* transcription has loaded, the remote call is made
FileRead(t) ==
    /\ tasks[t].kind \in {"FLASH_EDIT", "VEO_VIDEO", "transcribe"}
    /\ tasks[t].pc = "read"
    /\ tasks' = [tasks EXCEPT ![t].pc = "call"]
    /\ calls' = [calls EXCEPT ![t] = @ + 1]
    /\ UNCHANGED <<build, mode, state, activeTab, creativeOutput, transcript,
                   hfResults, chatInput, chatHistory, keySelected, isKeySetup>>

\* 103/110-111/120, 122: the media is stored and the step completed
Complete(t) ==
    /\ creativeOutput' = t
    /\ state' = [state EXCEPT !.step = "COMPLETED"]
    /\ UNCHANGED <<build, mode, activeTab, transcript, hfResults, chatInput,
                   chatHistory, keySelected, isKeySetup>>

\* 102-103, 109-111: generateImagePro / editImageFlash returns an image
ImageResponse(t) ==
    /\ tasks[t].kind \in {"PRO_GEN", "FLASH_EDIT"} /\ tasks[t].pc = "call"
    /\ calls' = [calls EXCEPT ![t] = @ - 1]
    /\ tasks' = [tasks EXCEPT ![t].pc = "done", ![t].media = "image"]
    /\ Complete(t)

\* 123-125: the catch of executeCreativeTask
\* (variant: the catch issues the failed request once more)
CaughtCreativeRetry(t, m) ==
    /\ tasks' = [tasks EXCEPT ![t].fail = m]
    /\ UNCHANGED <<build, mode, state, activeTab, creativeOutput, transcript,
                   hfResults, chatInput, chatHistory, keySelected, isKeySetup, calls>>

CaughtCreative(t, m) ==
    /\ calls' = [calls EXCEPT ![t] = @ - 1]
    /\ IF m = NotFoundMsg
       THEN /\ tasks' = [tasks EXCEPT ![t].pc = "reselect", ![t].fail = m]
            /\ UNCHANGED state
       ELSE /\ tasks' = [tasks EXCEPT ![t].pc = "done", ![t].fail = m]
            /\ state' = [state EXCEPT !.step = "FAILED", !.error = m]
    /\ UNCHANGED <<build, mode, activeTab, creativeOutput, transcript, hfResults,
                   chatInput, chatHistory, keySelected, isKeySetup>>

\* 102, 119 (146, 149): generateImagePro or generateVideoVeo rejects
CreativeFailure(t, m) ==
    /\ \/ tasks[t].kind = "PRO_GEN" /\ tasks[t].pc = "call"
       \/ tasks[t].kind = "VEO_VIDEO" /\ tasks[t].pc \in {"call", "poll"}
    /\ CaughtCreative(t, m)

\* 109: editImageFlash rejects inside reader.onload
FlashFailure(t, m) ==
    /\ tasks[t].kind = "FLASH_EDIT" /\ tasks[t].pc = "call"
    /\ Unhandled(t, m)

\* 124-125: openSelectKey of the catch resolves, then the failure is stored
ReselectResolved(t, picked) ==
    /\ tasks[t].pc = "reselect"
    /\ keySelected' = (keySelected \/ picked)
    /\ tasks' = [tasks EXCEPT ![t].pc = "done"]
    /\ state' = [state EXCEPT !.step = "FAILED", !.error = tasks[t].fail]
    /\ UNCHANGED <<build, mode, activeTab, creativeOutput, transcript, hfResults,
                   chatInput, chatHistory, isKeySetup, calls>>

\* ---- generateVideoVeo: geminiService.ts 134-154 ----

\* 147: while (!operation.done)
\* (variant: the status is looked at once, the loop is left in any case)
LoopExitsAlways(op) == TRUE

LoopExits(op) == op = "done"

\* 152-153: the link returned for a finished operation: that of the video
\* when operation.response?.generatedVideos?.[0]?.video?.uri is there, and
\* the text "undefined&key=..." when it is not
DownloadLink(uri) == IF uri THEN "video" ELSE "undefined"

\* 146-153 / 149-153: generateVideos or getVideosOperation resolves with an
\* operation, which carries a video URI or none; when the loop is left the
\* link is returned and 120-122 run
VeoOperation(t, done, uri) ==
    /\ tasks[t].kind = "VEO_VIDEO" /\ tasks[t].pc \in {"call", "poll"}
    /\ calls' = [calls EXCEPT ![t] = @ - 1]
    /\ LET op == IF done THEN "done" ELSE "pending" IN
       IF LoopExits(op)
       THEN /\ tasks' = [tasks EXCEPT ![t].op = op, ![t].pc = "done",
                                      ![t].media = DownloadLink(uri)]
            /\ Complete(t)
       ELSE /\ tasks' = [tasks EXCEPT ![t].op = op, ![t].pc = "wait"]
            /\ UNCHANGED <<build, mode, state, activeTab, creativeOutput,
                           transcript, hfResults, chatInput, chatHistory,
                           keySelected, isKeySetup>>

\* 148-149: the 10 s wait is over, the status is polled
\* (variant: generateVideos is not awaited, polling starts while it is pending)
VeoPollEarly(t) ==
    /\ tasks[t].kind = "VEO_VIDEO"
    /\ tasks[t].pc \in {"call", "wait"}
    /\ tasks[t].polls < MaxPolls
    /\ tasks' = [tasks EXCEPT ![t].pc = "poll", ![t].polls = @ + 1]
    /\ calls' = [calls EXCEPT ![t] = @ + 1]
    /\ UNCHANGED <<build, mode, state, activeTab, creativeOutput, transcript,
                   hfResults, chatInput, chatHistory, keySelected, isKeySetup>>

VeoPoll(t) ==
    /\ tasks[t].pc = "wait"
    /\ tasks[t].polls < MaxPolls
    /\ tasks' = [tasks EXCEPT ![t].pc = "poll", ![t].polls = @ + 1]
    /\ calls' = [calls EXCEPT ![t] = @ + 1]
    /\ UNCHANGED <<build, mode, state, activeTab, creativeOutput, transcript,
                   hfResults, chatInput, chatHistory, keySelected, isKeySetup>>

\* ---- transcription: 129-144 (part_001 167-182) ----

\* 129-134: the click; the button is disabled while no file is selected
HandleAudioTranscription(t) ==
    /\ mode = "TRANSCRIPTION"
    /\ FreeTask(t)
    /\ IF state.file = NoFile
       THEN UNCHANGED <<state, tasks>>
       ELSE /\ state' = [state EXCEPT !.step = "PROCESSING"]
            /\ tasks' = [tasks EXCEPT ![t] = [NoTask EXCEPT !.kind = "transcribe",
                                             !.pc = "read", !.file = state.file]]
    /\ UNCHANGED <<build, mode, activeTab, creativeOutput, transcript, hfResults,
                   chatInput, chatHistory, keySelected, isKeySetup, calls>>

\* 137-139: transcribeAudio returns the text
TranscribeResponse(t) ==
    /\ tasks[t].kind = "transcribe" /\ tasks[t].pc = "call"
    /\ calls' = [calls EXCEPT ![t] = @ - 1]
    /\ tasks' = [tasks EXCEPT ![t].pc = "done"]
    /\ transcript' = t
    /\ state' = [state EXCEPT !.step = "COMPLETED"]
    /\ UNCHANGED <<build, mode, activeTab, creativeOutput, hfResults, chatInput,
                   chatHistory, keySelected, isKeySetup>>

\* 137: transcribeAudio rejects inside reader.onload
TranscribeFailure(t, m) ==
    /\ tasks[t].kind = "transcribe" /\ tasks[t].pc = "call"
    /\ Unhandled(t, m)

\* ---- Hugging Face exploration: part_001 122-131 ----

\* part_001 122-125: the click or the Enter key
ExploreHf(t) ==
    /\ build = "part_001"
    /\ mode = "HUGGING_FACE"
    /\ FreeTask(t)
    /\ state' = [state EXCEPT !.step = "PROCESSING"]
    /\ tasks' = [tasks EXCEPT ![t] = [NoTask EXCEPT !.kind = "hf", !.pc = "call"]]
    /\ calls' = [calls EXCEPT ![t] = @ + 1]
    /\ UNCHANGED <<build, mode, activeTab, creativeOutput, transcript, hfResults,
                   chatInput, chatHistory, keySelected, isKeySetup>>

\* part_001 125-127
HfResponse(t) ==
    /\ tasks[t].kind = "hf" /\ tasks[t].pc = "call"
    /\ calls' = [calls EXCEPT ![t] = @ - 1]
    /\ tasks' = [tasks EXCEPT ![t].pc = "done"]
    /\ hfResults' = t
    /\ state' = [state EXCEPT !.step = "COMPLETED"]
    /\ UNCHANGED <<build, mode, activeTab, creativeOutput, transcript, chatInput,
                   chatHistory, keySelected, isKeySetup>>

\* part_001 128-130
HfFailure(t, m) ==
    /\ tasks[t].kind = "hf" /\ tasks[t].pc = "call"
    /\ calls' = [calls EXCEPT ![t] = @ - 1]
    /\ tasks' = [tasks EXCEPT ![t].pc = "done", ![t].fail = m]
    /\ state' = [state EXCEPT !.step = "FAILED", !.error = m]
    /\ UNCHANGED <<build, mode, activeTab, creativeOutput, transcript, hfResults,
                   chatInput, chatHistory, keySelected, isKeySetup>>

\* ---- chat: 146-169 (part_001 184-207) ----

\* what the user can have typed: nothing, blanks, a message
Inputs == {"", " ", "hi"}

\* String.prototype.trim
Trim(x) == IF x = " " THEN "" ELSE x

\* 384-403: the chat view is rendered in CHAT mode unless an image, a video
\* or a transcript takes its place
ChatShown == mode = "CHAT" /\ creativeOutput = 0 /\ transcript = 0

\* 428: the input field changes
SetChatInput(x) ==
    /\ ChatShown
    /\ x # chatInput
    /\ chatInput' = x
    /\ UNCHANGED <<build, mode, state, activeTab, creativeOutput, transcript,
                   hfResults, chatHistory, keySelected, isKeySetup, tasks, calls>>

\* 146-164: send: a blank input returns at once; else the input is cleared,
\* the user entry appended and generateContent called
HandleChatMessaging(t) ==
    /\ ChatShown
    /\ FreeTask(t)
    /\ IF Trim(chatInput) = ""
       THEN UNCHANGED <<chatInput, chatHistory, tasks, calls>>
       ELSE /\ chatInput' = ""
            /\ chatHistory' = Append(chatHistory, [role |-> "user", task |-> t])
            /\ tasks' = [tasks EXCEPT ![t] = [NoTask EXCEPT !.kind = "chat", !.pc = "call"]]
            /\ calls' = [calls EXCEPT ![t] = @ + 1]
    /\ UNCHANGED <<build, mode, state, activeTab, creativeOutput, transcript,
                   hfResults, keySelected, isKeySetup>>

\* 165: the reply is appended
ChatResponse(t) ==
    /\ tasks[t].kind = "chat" /\ tasks[t].pc = "call"
    /\ calls' = [calls EXCEPT ![t] = @ - 1]
    /\ tasks' = [tasks EXCEPT ![t].pc = "done"]
    /\ chatHistory' = Append(chatHistory, [role |-> "ai", task |-> t])
    /\ UNCHANGED <<build, mode, state, activeTab, creativeOutput, transcript,
                   hfResults, chatInput, keySelected, isKeySetup>>

\* 166-168: the error is appended as an ai entry
ChatFailure(t, m) ==
    /\ tasks[t].kind = "chat" /\ tasks[t].pc = "call"
    /\ calls' = [calls EXCEPT ![t] = @ - 1]
    /\ tasks' = [tasks EXCEPT ![t].pc = "done", ![t].fail = m]
    /\ chatHistory' = Append(chatHistory, [role |-> "ai", task |-> t])
    /\ UNCHANGED <<build, mode, state, activeTab, creativeOutput, transcript,
                   hfResults, chatInput, keySelected, isKeySetup>>

Tabs == {"sections", "markdown"}

\* ProcessingIndicator.tsx 16-24
getStepIndex(step) ==
    CASE step = "OCR_EXTRACTING" -> 0
      [] step = "SEMANTIC_ANALYSIS" -> 1
      [] step = "MULTIMODAL_REASONING" -> 2
      [] step = "COMPLETED" -> 3
      [] OTHER -> -1

\* the navigation and the file input, usable at any time
Navigate(M) ==
    \/ \E m \in M : ModeChange(m)
    \/ \E f \in Files \cup {NoFile} : FileChange(f)

\* document analysis; the handlers of the other panels add nothing to it, so
\* CHAT stands for the modes other than DOC_INTEL
DocModes == {"DOC_INTEL", "CHAT"}

NextDoc ==
    /\ UNCHANGED <<fnVars, liveVars>>
    /\ \/ Navigate(DocModes)
       \/ \E tab \in Tabs : SetActiveTab(tab)
       \/ \E t \in Tasks : RunMultimodalAnalysis(t)
       \/ \E t \in Tasks : DocOnload(t)
       \/ \E t \in Tasks : TimerSemantic(t)
       \/ \E t \in Tasks : TimerReasoning(t)
       \/ \E t \in Tasks, data \in DataShapes : DocResponse(t, data)
       \/ \E t \in Tasks, m \in Messages : DocFailure(t, m)

\* the creative suite
CreativeModes == {"CREATIVE", "CHAT"}

NextCreative ==
    /\ UNCHANGED <<fnVars, liveVars>>
    /\ \/ Navigate(CreativeModes)
       \/ \E t \in Tasks, task \in Creative : ExecuteCreativeTask(t, task)
       \/ \E t \in Tasks : HasKeyResolved(t)
       \/ \E t \in Tasks, picked \in BOOLEAN : SelectKeyResolved(t, picked)
       \/ \E t \in Tasks : FileRead(t)
       \/ \E t \in Tasks : ImageResponse(t)
       \/ \E t \in Tasks, m \in Messages : CreativeFailure(t, m)
       \/ \E t \in Tasks, m \in Messages : FlashFailure(t, m)
       \/ \E t \in Tasks, picked \in BOOLEAN : ReselectResolved(t, picked)
       \/ \E t \in Tasks, done, uri \in BOOLEAN : VeoOperation(t, done, uri)
       \/ \E t \in Tasks : VeoPoll(t)

\* transcription, Hugging Face exploration and chat
AuxModes == {"TRANSCRIPTION", "HUGGING_FACE", "CHAT"}

NextAux ==
    /\ UNCHANGED <<fnVars, liveVars>>
    /\ \/ Navigate(Modes \cap AuxModes)
       \/ \E t \in Tasks : HandleAudioTranscription(t)
       \/ \E t \in Tasks : FileRead(t)
       \/ \E t \in Tasks : TranscribeResponse(t)
       \/ \E t \in Tasks, m \in Messages : TranscribeFailure(t, m)
       \/ \E t \in Tasks : ExploreHf(t)
       \/ \E t \in Tasks : HfResponse(t)
       \/ \E t \in Tasks, m \in Messages : HfFailure(t, m)
       \/ \E x \in Inputs : SetChatInput(x)
       \/ \E t \in Tasks : HandleChatMessaging(t)
       \/ \E t \in Tasks : ChatResponse(t)
       \/ \E t \in Tasks, m \in Messages : ChatFailure(t, m)

(***************************************************************************)
(* Live voice session  (App.tsx 171-226, part_001 209-262)                 *)
(***************************************************************************)
Sessions == 1..MaxSessions

\* what an audio message decodes to: a buffer of 1..MaxDur ticks, or
\* BadAudio when decodeAudioData throws (an odd byte count makes
\* new Int16Array(data.buffer) throw, an empty one makes createBuffer throw)
BadAudio == 0

Payloads == (1..MaxDur) \cup {BadAudio}

LiveInit ==
    /\ isLiveActive = FALSE
    /\ liveSessionRef = 0
    /\ audioContextRef = FALSE
    /\ nextStartTimeRef = 0
    /\ currentTime = 0
    /\ sessSt = [s \in Sessions |-> "unused"]
    /\ sessStream = [s \in Sessions |-> "none"]
    /\ sessProc = [s \in Sessions |-> FALSE]
    /\ closeCalls = [s \in Sessions |-> 0]
    /\ oncloseDue = {}
    /\ sentOpen = [s \in Sessions |-> 0]
    /\ sentClosed = [s \in Sessions |-> 0]
    /\ decoding = <<>>
    /\ received = 0
    /\ scheduled = <<>>
    /\ lastAct = "none"
    /\ outbound = [s \in Sessions |-> <<>>]
    /\ tts = [issued |-> 0, waiting |-> 0, decoding |-> 0, started |-> <<>>]

Max2(a, b) == IF a >= b THEN a ELSE b

\* 205: nextStartTimeRef.current = Math.max(nextStartTimeRef.current, ctx.currentTime)
\* (variant: the pointer is set to the clock)
ClampToClockOnly(next, now) == now

ClampToClock(next, now) == Max2(next, now)

\* 211: nextStartTimeRef.current += buffer.duration
\* (variant: the pointer is not advanced)
AdvanceNot(next, dur) == next

Advance(next, dur) == next + dur

\* 172-176: toggle while the session is shown active
\* (variant: the early return is missing, the start path runs as well)
ToggleOffNoReturn ==
    /\ isLiveActive
    /\ lastAct' = "toggle"
    /\ closeCalls' = IF liveSessionRef = 0 THEN closeCalls
                     ELSE [closeCalls EXCEPT ![liveSessionRef] = @ + 1]
    /\ oncloseDue' = IF liveSessionRef # 0 /\ sessSt[liveSessionRef] = "open"
                     THEN oncloseDue \cup {liveSessionRef} ELSE oncloseDue
    /\ isLiveActive' = FALSE
    /\ \E s \in Sessions :
          /\ sessSt[s] = "unused"
          /\ sessSt' = [r \in Sessions |->
                IF r = s THEN "mic"
                ELSE IF r = liveSessionRef /\ sessSt[r] = "open" THEN "closed"
                ELSE sessSt[r]]
    /\ UNCHANGED <<liveSessionRef, audioContextRef, nextStartTimeRef, currentTime,
                   sessStream, sessProc, sentOpen, sentClosed, decoding,
                   received, scheduled,
                   outbound, tts>>

ToggleOff ==
    /\ isLiveActive
    /\ lastAct' = "toggle"
    \* liveSessionRef.current?.close()
    /\ closeCalls' = IF liveSessionRef = 0 THEN closeCalls
                     ELSE [closeCalls EXCEPT ![liveSessionRef] = @ + 1]
    /\ IF liveSessionRef # 0 /\ sessSt[liveSessionRef] = "open"
       THEN /\ sessSt' = [sessSt EXCEPT ![liveSessionRef] = "closed"]
            /\ oncloseDue' = oncloseDue \cup {liveSessionRef}
       ELSE UNCHANGED <<sessSt, oncloseDue>>
    /\ isLiveActive' = FALSE
    /\ UNCHANGED <<liveSessionRef, audioContextRef, nextStartTimeRef, currentTime,
                   sessStream, sessProc, sentOpen, sentClosed, decoding,
                   received, scheduled,
                   outbound, tts>>

\* 178-180: toggle while not active: the audio context is created when
\* missing and the handler suspends in await getUserMedia
ToggleOn ==
    /\ ~isLiveActive
    /\ lastAct' = "toggle"
    /\ \E s \in Sessions :
          /\ sessSt[s] = "unused"
          /\ \A r \in Sessions : r < s => sessSt[r] # "unused"
          /\ sessSt' = [sessSt EXCEPT ![s] = "mic"]
    /\ audioContextRef' = TRUE
    /\ UNCHANGED <<isLiveActive, liveSessionRef, nextStartTimeRef, currentTime,
                   sessStream, sessProc, closeCalls, oncloseDue, sentOpen,
                   sentClosed, decoding, received, scheduled,
                   outbound, tts>>

\* 180-183: getUserMedia resolves, ai.live.connect is called
MicGranted(s) ==
    /\ sessSt[s] = "mic"
    /\ lastAct' = "other"
    /\ sessStream' = [sessStream EXCEPT ![s] = "live"]
    /\ sessSt' = [sessSt EXCEPT ![s] = "connecting"]
    /\ UNCHANGED <<isLiveActive, liveSessionRef, audioContextRef, nextStartTimeRef,
                   currentTime, sessProc, closeCalls, oncloseDue, sentOpen,
                   sentClosed, decoding, received, scheduled,
                   outbound, tts>>

\* 180, 223-225: getUserMedia rejects, the catch logs
MicDenied(s) ==
    /\ sessSt[s] = "mic"
    /\ lastAct' = "other"
    /\ sessSt' = [sessSt EXCEPT ![s] = "micDenied"]
    /\ UNCHANGED <<isLiveActive, liveSessionRef, audioContextRef, nextStartTimeRef,
                   currentTime, sessStream, sessProc, closeCalls, oncloseDue,
                   sentOpen, sentClosed, decoding, received, scheduled,
                   outbound, tts>>

\* 222-225: the connection is refused, await sessionPromise throws, the
\* catch logs
ConnectFailed(s) ==
    /\ sessSt[s] = "connecting"
    /\ lastAct' = "other"
    /\ sessSt' = [sessSt EXCEPT ![s] = "connectFailed"]
    /\ UNCHANGED <<isLiveActive, liveSessionRef, audioContextRef, nextStartTimeRef,
                   currentTime, sessStream, sessProc, closeCalls, oncloseDue,
                   sentOpen, sentClosed, decoding, received, scheduled,
                   outbound, tts>>

\* 186-200, 222: the socket opens: the onopen callback wires the script
\* processor and sets isLiveActive; connect() then resolves and the
\* continuation of await sessionPromise stores the session, in the same task
OnOpen(s) ==
    /\ sessSt[s] = "connecting"
    /\ lastAct' = "other"
    /\ sessSt' = [sessSt EXCEPT ![s] = "open"]
    /\ sessProc' = [sessProc EXCEPT ![s] = TRUE]
    /\ isLiveActive' = TRUE
    /\ liveSessionRef' = s
    /\ UNCHANGED <<audioContextRef, nextStartTimeRef, currentTime, sessStream,
                   closeCalls, oncloseDue, sentOpen, sentClosed, decoding,
                   received, scheduled,
                   outbound, tts>>

\* 214: the remote side closes the socket, onclose runs
RemoteClose(s) ==
    /\ sessSt[s] = "open"
    /\ lastAct' = "other"
    /\ sessSt' = [sessSt EXCEPT ![s] = "closed"]
    /\ isLiveActive' = FALSE
    /\ UNCHANGED <<liveSessionRef, audioContextRef, nextStartTimeRef, currentTime,
                   sessStream, sessProc, closeCalls, oncloseDue, sentOpen,
                   sentClosed, decoding, received, scheduled,
                   outbound, tts>>

\* 214: onclose of a session closed by session.close(), in a later task
OnCloseAfterLocalClose(s) ==
    /\ s \in oncloseDue
    /\ lastAct' = "other"
    /\ oncloseDue' = oncloseDue \ {s}
    /\ isLiveActive' = FALSE
    /\ UNCHANGED <<liveSessionRef, audioContextRef, nextStartTimeRef, currentTime,
                   sessSt, sessStream, sessProc, closeCalls, sentOpen,
                   sentClosed, decoding, received, scheduled,
                   outbound, tts>>

RECURSIVE SumOver(_, _)
SumOver(f, S) ==
    IF S = {} THEN 0
    ELSE LET x == CHOOSE y \in S : TRUE IN f[x] + SumOver(f, S \ {x})

FramesDelivered == SumOver(sentOpen, Sessions) + SumOver(sentClosed, Sessions)

\* the frames the script processor of session s has been handed so far
Captured(s) == sentOpen[s] + sentClosed[s]

\* 194: sessionPromise.then(s => s.sendRealtimeInput(...)): the promise has
\* resolved before the first callback runs, so the call is made in the task
\* of the callback, once
\* (variant: the frame goes in front of the ones sent before)
SendRealtimeInputFirst(sent, frame) == <<frame>> \o sent

SendRealtimeInput(sent, frame) == Append(sent, frame)

\* 189-196: the audio subsystem delivers a microphone frame; the callback
\* converts it, encodes it and hands it to sendRealtimeInput of its session.
\* Nothing detaches the callback or stops the stream.
OnAudioProcess(s) ==
    /\ sessProc[s]
    /\ sessStream[s] = "live"
    /\ FramesDelivered < MaxFrames
    /\ lastAct' = "other"
    /\ outbound' = [outbound EXCEPT ![s] = SendRealtimeInput(@, Captured(s) + 1)]
    /\ IF sessSt[s] = "open"
       THEN /\ sentOpen' = [sentOpen EXCEPT ![s] = @ + 1]
            /\ UNCHANGED sentClosed
       ELSE /\ sentClosed' = [sentClosed EXCEPT ![s] = @ + 1]
            /\ UNCHANGED sentOpen
    /\ UNCHANGED <<isLiveActive, liveSessionRef, audioContextRef, nextStartTimeRef,
                   currentTime, sessSt, sessStream, sessProc, closeCalls,
                   oncloseDue, decoding, received, scheduled, tts>>

\* 201-206: a message with audio arrives: the pointer is clamped to the
\* clock and the handler suspends in await decodeAudioData
OnMessageAudio(s, p) ==
    /\ sessSt[s] = "open"
    /\ received < MaxChunks
    /\ lastAct' = "other"
    /\ received' = received + 1
    /\ nextStartTimeRef' = ClampToClock(nextStartTimeRef, currentTime)
    /\ decoding' = Append(decoding, p)
    /\ UNCHANGED <<isLiveActive, liveSessionRef, audioContextRef, currentTime,
                   sessSt, sessStream, sessProc, closeCalls, oncloseDue,
                   sentOpen, sentClosed, scheduled,
                   outbound, tts>>

\* 202-203: a message without inline audio: the handler does nothing
OnMessageOther(s) ==
    /\ sessSt[s] = "open"
    /\ received < MaxChunks
    /\ lastAct' = "other"
    /\ received' = received + 1
    /\ UNCHANGED <<isLiveActive, liveSessionRef, audioContextRef, nextStartTimeRef,
                   currentTime, sessSt, sessStream, sessProc, closeCalls,
                   oncloseDue, sentOpen, sentClosed, decoding, scheduled,
                   outbound, tts>>

RemoveAt(q, i) == SubSeq(q, 1, i - 1) \o SubSeq(q, i + 1, Len(q))

\* 206-211: a suspended handler resumes (in any order): the buffer is
\* started at the pointer and the pointer advanced; a failed decode throws
OnMessageResume(i) ==
    /\ i \in 1..Len(decoding)
    /\ lastAct' = "other"
    /\ decoding' = RemoveAt(decoding, i)
    /\ IF decoding[i] = BadAudio
       THEN UNCHANGED <<scheduled, nextStartTimeRef>>
       ELSE /\ scheduled' = Append(scheduled,
                    [start |-> nextStartTimeRef, dur |-> decoding[i]])
            /\ nextStartTimeRef' = Advance(nextStartTimeRef, decoding[i])
    /\ UNCHANGED <<isLiveActive, liveSessionRef, audioContextRef, currentTime,
                   sessSt, sessStream, sessProc, closeCalls, oncloseDue,
                   sentOpen, sentClosed, received,
                   outbound, tts>>

\* the clock of the audio context advances
Tick ==
    /\ audioContextRef
    /\ currentTime < MaxTime
    /\ lastAct' = "other"
    /\ currentTime' = currentTime + 1
    /\ UNCHANGED <<isLiveActive, liveSessionRef, audioContextRef, nextStartTimeRef,
                   sessSt, sessStream, sessProc, closeCalls, oncloseDue,
                   sentOpen, sentClosed, decoding, received, scheduled,
                   outbound, tts>>

NextLive ==
    /\ UNCHANGED <<fnVars, uiVars>>
    /\ \/ ToggleOff
       \/ ToggleOn
       \/ \E s \in Sessions : MicGranted(s)
       \/ \E s \in Sessions : MicDenied(s)
       \/ \E s \in Sessions : ConnectFailed(s)
       \/ \E s \in Sessions : OnOpen(s)
       \/ \E s \in Sessions : RemoteClose(s)
       \/ \E s \in Sessions : OnCloseAfterLocalClose(s)
       \/ \E s \in Sessions : OnAudioProcess(s)
       \/ \E s \in Sessions, p \in Payloads : OnMessageAudio(s, p)
       \/ \E s \in Sessions : OnMessageOther(s)
       \/ \E i \in 1..MaxChunks : OnMessageResume(i)
       \/ Tick

InitLive == FnIdle /\ LiveInit /\ UiIdle

(***************************************************************************)
(* Narration  (part_001 264-278)                                           *)
(***************************************************************************)
\* what the live session leaves alone in a narration step
liveOnly == <<isLiveActive, liveSessionRef, nextStartTimeRef, currentTime, sessSt,
              sessStream, sessProc, closeCalls, oncloseDue, sentOpen, sentClosed,
              decoding, received, scheduled, outbound>>

\* 264-266: a narration button is clicked, generateTTS is awaited
HandleTTSNarration ==
    /\ build = "part_001"
    /\ tts.issued < MaxNarrations
    /\ lastAct' = "other"
    /\ tts' = [tts EXCEPT !.issued = @ + 1, !.waiting = @ + 1]
    /\ UNCHANGED <<liveOnly, audioContextRef>>

\* 266-269: generateTTS resolves; with audio the context is created when
\* missing and decodeAudioData is awaited, without audio nothing is played
TtsResponse(audio) ==
    /\ tts.waiting > 0
    /\ lastAct' = "other"
    /\ IF audio
       THEN /\ audioContextRef' = TRUE
            /\ tts' = [tts EXCEPT !.waiting = @ - 1, !.decoding = @ + 1]
       ELSE /\ tts' = [tts EXCEPT !.waiting = @ - 1]
            /\ UNCHANGED audioContextRef
    /\ UNCHANGED liveOnly

\* 266, 275-277: generateTTS rejects, the catch logs
TtsFailure ==
    /\ tts.waiting > 0
    /\ lastAct' = "other"
    /\ tts' = [tts EXCEPT !.waiting = @ - 1]
    /\ UNCHANGED <<liveOnly, audioContextRef>>

\* 269-273: the buffer of dur ticks is decoded and started by source.start(),
\* which is a start at the current time of the context
TtsStart(dur) ==
    /\ tts.decoding > 0
    /\ lastAct' = "other"
    /\ tts' = [tts EXCEPT !.decoding = @ - 1,
                          !.started = Append(@, [start |-> currentTime, dur |-> dur])]
    /\ UNCHANGED <<liveOnly, audioContextRef>>

\* narration next to the playback of a live session
NextNarration ==
    /\ UNCHANGED <<fnVars, uiVars>>
    /\ \/ HandleTTSNarration
       \/ \E audio \in BOOLEAN : TtsResponse(audio)
       \/ TtsFailure
       \/ \E dur \in 1..MaxDur : TtsStart(dur)
       \/ ToggleOff
       \/ ToggleOn
       \/ \E s \in Sessions : MicGranted(s)
       \/ \E s \in Sessions : OnOpen(s)
       \/ \E s \in Sessions : RemoteClose(s)
       \/ \E s \in Sessions : OnCloseAfterLocalClose(s)
       \/ \E s \in Sessions, p \in Payloads : OnMessageAudio(s, p)
       \/ \E i \in 1..MaxChunks : OnMessageResume(i)
       \/ Tick

UiNarration ==
    /\ UiStart("part_001")
    /\ keySelected = FALSE

InitNarration == FnIdle /\ LiveInit /\ UiNarration

SpecNarration == InitNarration /\ [][NextNarration]_vars

SpecLive == InitLive /\ [][NextLive]_vars

InitUI == FnIdle /\ LiveInit /\ UiInit

SpecDoc == InitUI /\ [][NextDoc]_vars

SpecCreative == InitUI /\ [][NextCreative]_vars

SpecAux == InitUI /\ [][NextAux]_vars

InitRequest ==
    JsonIdle /\ ReqInit /\ B64Idle /\ PcmIdle /\ DecIdle /\ LiveInit /\ UiIdle

SpecRequest == InitRequest /\ [][NextRequest]_vars

InitBase64 ==
    JsonIdle /\ ReqIdle /\ B64Init /\ PcmIdle /\ DecIdle /\ LiveInit /\ UiIdle

InitPcm ==
    JsonIdle /\ ReqIdle /\ B64Idle /\ PcmInit /\ DecIdle /\ LiveInit /\ UiIdle

SpecPcm == InitPcm /\ [][NextPcm]_vars

InitDecode ==
    JsonIdle /\ ReqIdle /\ B64Idle /\ PcmIdle /\ DecInit /\ LiveInit /\ UiIdle

SpecDecode == InitDecode /\ [][NextDecode]_vars

SpecBase64 == InitBase64 /\ [][NextBase64]_vars

(***************************************************************************)
(* Properties of the request handlers                                      *)
(***************************************************************************)
\* the handler invocation t has just ended on a rejected remote call
EndsFailed(t) ==
    /\ tasks[t].pc # tasks'[t].pc
    /\ tasks'[t].pc \in {"done", "unhandled"}
    /\ tasks'[t].fail # NoError

\* C2: when the remote call of a document analysis, a creative task, a
\* transcription or a Hugging Face exploration fails, the handling of that
\* failure leaves step = FAILED and error = the message of the failure.
C2_ErrorsSurfaced ==
    [][\A t \in Tasks :
        (EndsFailed(t) /\ tasks'[t].kind \in
            {"doc", "PRO_GEN", "FLASH_EDIT", "VEO_VIDEO", "transcribe", "hf"})
        => (state'.step = "FAILED" /\ state'.error = tasks'[t].fail)]_vars

OutstandingCalls == SumOver(calls, Tasks)

\* C4 as stated: at most one remote call is outstanding in every state.
C4_SingleFlight == OutstandingCalls <= 1

\* C4 amended: every handler invocation awaits each of its remote calls
\* before making the next, so one invocation never has two calls outstanding;
\* nothing keeps a second user action from making a call while an earlier
\* one is outstanding.
C4_SequentialPerInvocation == \A t \in Tasks : calls[t] <= 1

\* a video task polls its operation while the call of another task is
\* still outstanding
C4_Witness ==
    \E t, r \in Tasks :
        /\ t # r
        /\ tasks[t].kind = "VEO_VIDEO" /\ tasks[t].pc = "poll" /\ calls[t] = 1
        /\ tasks[r].pc = "call" /\ calls[r] = 1

Unmixed(r) == \A f \in DataFields : r[f] \in {0, r.groundingUrls}

\* C9: the completion of a document analysis replaces state.result as a
\* whole by the data and grounding of its own response, so the result is that
\* of the response applied last and never a mixture of two responses.
C9_LatestWriteWins ==
    [][/\ \A t \in Tasks :
            (tasks[t].kind = "doc" /\ tasks[t].pc = "call" /\ tasks'[t].pc = "done")
            => (state'.result.groundingUrls = t
                /\ \A f \in DataFields : state'.result[f] \in {0, t})
       /\ Unmixed(state'.result)]_vars

\* two analyses overlapped: the first started shows its result although the
\* second has completed
C9_Witness ==
    /\ MaxTasks >= 2
    /\ tasks[1].kind = "doc" /\ tasks[1].pc = "done"
    /\ tasks[2].kind = "doc" /\ tasks[2].pc = "done"
    /\ state.result.markdown = 1
    /\ state.result.websiteCode = 0

\* C11: whenever state.result is not null it holds sections, markdown,
\* jsonSchema and explanation, whatever the response held.
C11_ResultShape ==
    state.result # NullResult => \A f \in RequiredFields : state.result[f] # 0

\* the invocation t issues a remote request in this step
Issues(t) == calls'[t] > calls[t]

\* C14: a failed remote request is not issued again: once a request of an
\* invocation has failed, the invocation has no request outstanding and
\* issues none; and an invocation issues a request either as its first one
\* or as a status poll of a video operation that is not done.
C14_NoRetry ==
    [][\A t \in Tasks :
        /\ tasks'[t].fail # NoError => calls'[t] = 0
        /\ tasks[t].fail # NoError => ~Issues(t)
        /\ Issues(t) =>
              \/ tasks[t].pc \in {"idle", "read", "hasKey", "selectKey"}
              \/ /\ tasks[t].kind = "VEO_VIDEO"
                 /\ tasks[t].pc = "wait" /\ tasks[t].op = "pending"
                 /\ tasks'[t].pc = "poll"]_vars

\* a status poll of a video operation failed and the failure was stored,
\* with nothing outstanding
C14_Witness ==
    \E t \in Tasks :
        /\ tasks[t].kind = "VEO_VIDEO" /\ tasks[t].polls >= 1
        /\ tasks[t].pc = "done" /\ tasks[t].fail # NoError
        /\ calls[t] = 0
        /\ state.step = "FAILED"

\* a progress timer of the invocation t fires in this step
TimerFires(t) == tasks[t].tmr >= 1 /\ tasks'[t].tmr > tasks[t].tmr

\* C16: a progress timer of a document analysis moves the step forward
\* only: it does not fire on a step that is COMPLETED, FAILED or IDLE and
\* never lowers the index of the step shown.
C16_StepNeverRegresses ==
    [][\A t \in Tasks : TimerFires(t) =>
        /\ state.step \notin {"COMPLETED", "FAILED", "IDLE"}
        /\ getStepIndex(state'.step) >= getStepIndex(state.step)]_vars

OutputsEmpty ==
    /\ state.result = NullResult
    /\ state.step = "IDLE"
    /\ creativeOutput = 0
    /\ transcript = 0

\* C17: a mode change or the selection of a file leaves result = null,
\* error = null, step = IDLE, no creative output and an empty transcript.
C17_ResetOnNavigation ==
    [][Navigate(Modes) => (OutputsEmpty' /\ state'.error = NoError)]_vars

\* a failure had been stored and a creative output shown by the time the
\* outputs were reset
C17_Witness ==
    /\ OutputsEmpty
    /\ state.error = NoError
    /\ \E t \in Tasks : tasks[t].pc = "done" /\ tasks[t].fail # NoError
    /\ \E t \in Tasks : tasks[t].pc = "done" /\ tasks[t].fail = NoError

\* the user starts an operation in this step
Starts == \E t \in Tasks : tasks[t].kind = "none" /\ tasks'[t].kind # "none"

\* C18: while the outputs are empty (as a reset leaves them) only the start
\* of a new operation changes them, and a result shown is that of an
\* analysis of the file now selected.
C18_NoStaleWrite ==
    [][/\ OutputsEmpty => (OutputsEmpty' \/ Starts)
       /\ state'.result # NullResult
            => tasks'[state'.result.groundingUrls].file = state'.file]_vars

\* C19 as stated: error is not null exactly when the step is FAILED.
C19_ErrorIffFailed == (state.error # NoError) <=> (state.step = "FAILED")

\* C19 amended: a step of FAILED comes with the message of a failure, and
\* after a reset the error is null; the start of an operation and its
\* completion do not clear the error of an earlier failure.
C19_FailedHasError ==
    /\ state.step = "FAILED" =>
          (state.error # NoError
            /\ \E t \in Tasks : tasks[t].pc = "done" /\ tasks[t].fail = state.error)
    /\ state.step = "IDLE" => state.error = NoError

\* an operation started after a failure has completed, the message of the
\* failure is still in the state
C19_Witness ==
    /\ state.step = "COMPLETED"
    /\ state.error # NoError
    /\ creativeOutput # 0
    /\ \E t \in Tasks : t < creativeOutput /\ tasks[t].fail = state.error

(***************************************************************************)
(* Properties of the live voice session                                    *)
(***************************************************************************)
ChunkEnd(c) == c.start + c.dur

\* C1: every chunk handed to source.start is scheduled at or after the start
\* plus the duration of the chunk scheduled before it, whatever the order in
\* which the suspended onmessage handlers resume.
C1_PlaybackOrdering ==
    \A i \in 2..Len(scheduled) : scheduled[i].start >= ChunkEnd(scheduled[i - 1])

\* two chunks were scheduled after the clock had advanced
C1_Witness ==
    /\ Len(scheduled) >= 2
    /\ currentTime > 0
    /\ scheduled[2].start >= ChunkEnd(scheduled[1])

\* C5: once a live session is closed (by the toggle or by the remote side)
\* its microphone stream is released and no further frame is encoded and
\* sent on it.
C5_MicReleasedOnClose ==
    \A s \in Sessions :
        sessSt[s] = "closed" => (sessStream[s] # "live" /\ sentClosed[s] = 0)

\* C7: the next-playback-start-time pointer never decreases, and right after
\* a chunk is scheduled it equals that chunk's start plus its duration.
C7_PointerMonotonic ==
    [][/\ nextStartTimeRef' >= nextStartTimeRef
       /\ Len(scheduled') > Len(scheduled)
            => nextStartTimeRef' = ChunkEnd(scheduled'[Len(scheduled')])]_vars

\* a chunk was scheduled, a session has closed and a later session is open
\* with a handler of it still suspended
C7_Witness ==
    /\ Len(scheduled) >= 1
    /\ nextStartTimeRef > 0
    /\ \E s, r \in Sessions : s < r /\ sessSt[s] = "closed" /\ sessSt[r] = "open"
    /\ Len(decoding) >= 1

\* C10: a toggle made while isLiveActive is true calls close exactly once, on
\* the session liveSessionRef holds (which is open), sets isLiveActive to
\* false, requests no microphone and opens no session.
C10_Cancellation ==
    [][(isLiveActive /\ lastAct' = "toggle")
        => /\ liveSessionRef # 0
           /\ sessSt[liveSessionRef] = "open"
           /\ closeCalls' = [closeCalls EXCEPT ![liveSessionRef] = @ + 1]
           /\ isLiveActive' = FALSE
           /\ sessSt' = [sessSt EXCEPT ![liveSessionRef] = "closed"]
           /\ sessStream' = sessStream
           /\ liveSessionRef' = liveSessionRef]_vars

\* the toggle just closed the session it had opened
C10_Witness ==
    /\ lastAct = "toggle"
    /\ ~isLiveActive
    /\ liveSessionRef # 0
    /\ closeCalls[liveSessionRef] = 1
    /\ sessSt[liveSessionRef] = "closed"

\* the sessions that are connecting or open
LiveSessions == {s \in Sessions : sessSt[s] \in {"connecting", "open"}}

\* C20: at most one live session is connecting or open at any time, an open
\* one is the session liveSessionRef holds, and right after a toggle that
\* found the interface active no session is open.
C20_AtMostOneSession ==
    /\ Cardinality(LiveSessions) <= 1
    /\ \A s \in Sessions : sessSt[s] = "open" => liveSessionRef = s
    /\ (lastAct = "toggle" /\ ~isLiveActive /\ liveSessionRef # 0
          /\ closeCalls[liveSessionRef] > 0)
        => \A s \in Sessions : sessSt[s] # "open"

\* the tasks that go through ensureApiKey
GatedKinds == {"PRO_GEN", "VEO_VIDEO"}

\* the steps of ensureApiKey and what follows it: the key check comes before
\* the request (and before the FileReader of VEO_VIDEO), the selector is
\* opened exactly when hasSelectedApiKey answered false, and the handler
\* goes on only from the key check with a key or from the resolved selector
KeyGate(t) ==
    /\ tasks[t].pc = "idle" /\ tasks'[t].pc # "idle" => tasks'[t].pc = "hasKey"
    /\ tasks[t].pc = "hasKey" /\ tasks'[t].pc # "hasKey" =>
          IF keySelected THEN tasks'[t].pc \in {"call", "read"}
                         ELSE tasks'[t].pc = "selectKey" /\ ~Issues(t)
    /\ tasks[t].pc = "selectKey" /\ tasks'[t].pc # "selectKey" =>
          tasks'[t].pc \in {"call", "read"}
    /\ Issues(t) => tasks[t].pc \in {"hasKey", "selectKey", "read", "wait"}

\* a failure with "Requested entity was not found" reopens the selector, and
\* when the selector call resolves the step is FAILED
NotFoundReopens(t) ==
    /\ tasks'[t].fail = NotFoundMsg /\ tasks[t].fail # NotFoundMsg =>
          tasks'[t].pc = "reselect"
    /\ tasks[t].pc = "reselect" /\ tasks'[t].pc # "reselect" =>
          (tasks'[t].pc = "done" /\ state'.step = "FAILED")

\* C27: for every captured sample s in [-1.0, 1.0] the 16-bit value sent is
\* the truncation of s * 32768, lies in [-32768, 32767] and has the sign of
\* s: nothing wraps around, s = 1.0 included.
C27_PcmConversion ==
    pcmPc = "done" =>
        /\ pcmOut = Trunc(pcmSample * 32768, MaxSample)
        /\ pcmOut \in (-32768)..32767
        /\ pcmSample > 0 => pcmOut >= 0
        /\ pcmSample < 0 => pcmOut <= 0

\* the inputs C29 speaks of: an even byte count and a channel count that
\* divides the sample count
InDomain ==
    /\ Len(decData) % 2 = 0
    /\ (Len(decData) \div 2) % decChannels = 0

\* the buffer has one channel per requested channel, each of
\* (bytes / 2) / numChannels frames; frame i of channel c is the signed
\* 16-bit number at index i * numChannels + c, low byte first, over 32768,
\* and lies in [-1.0, 1.0)
BufferAsClaimed ==
    /\ decOut.ok
    /\ DOMAIN decOut.val = 1..decChannels
    /\ \A c \in 1..decChannels :
          /\ DOMAIN decOut.val[c] = 1..((Len(decData) \div 2) \div decChannels)
          /\ \A i \in DOMAIN decOut.val[c] :
                LET k == (i - 1) * decChannels + (c - 1)
                    lo == decData[2 * k + 1]
                    hi == decData[2 * k + 2]
                    x == decOut.val[c][i]
                IN /\ x.den = 32768
                   /\ x.num = lo + 256 * hi - (IF hi >= 128 THEN 65536 ELSE 0)
                   /\ -x.den <= x.num /\ x.num < x.den

\* C29: for every byte array of even length and every channel count that
\* divides its sample count, decodeAudioData returns a buffer of
\* (bytes / 2) / numChannels frames per channel whose sample of channel c at
\* frame i is the 16-bit sample at index i * numChannels + c divided by
\* 32768, every sample lying in [-1.0, 1.0).
C29_DecodeAudioData == (decPc = "done" /\ InDomain) => BufferAsClaimed

\* C29 for the arrays that hold at least one frame; createBuffer refuses a
\* length of 0, so the empty array ends in an exception
C29_DecodeNonEmpty ==
    (decPc = "done" /\ InDomain) =>
        IF decData = <<>> THEN ~decOut.ok ELSE BufferAsClaimed

\* two channels of two frames were decoded, with a negative sample in them
C29_Witness ==
    /\ decPc = "done" /\ decOut.ok
    /\ decChannels = 2 /\ Len(decData) = 8
    /\ decOut.val[2][2].num < 0 /\ decOut.val[1][1].num = 32767

\* C28: for PRO_GEN and VEO_VIDEO the key check runs before the remote
\* request, the key selector is opened exactly when no key is selected, the
\* request is issued only after the selector call has resolved, and no
\* request of these tasks is issued while no key is selected; a failure with
\* "Requested entity was not found" reopens the selector and ends FAILED.
C28_KeyGate ==
    [][\A t \in Tasks : tasks'[t].kind \in GatedKinds =>
          /\ KeyGate(t)
          /\ NotFoundReopens(t)
          /\ Issues(t) => keySelected']_vars

\* C28 as the code has it: the gate and the failure path as above, but the
\* request goes out once the selector call has resolved, whether or not a
\* key was selected in it.
C28_KeyGateNoRecheck ==
    [][\A t \in Tasks : tasks'[t].kind \in GatedKinds =>
          (KeyGate(t) /\ NotFoundReopens(t))]_vars

\* the selector was dismissed without a key, the request went out and failed
\* with "Requested entity was not found", the selector was opened again and
\* the step is FAILED
C28_Witness ==
    /\ ~keySelected
    /\ state.step = "FAILED"
    /\ \E t \in Tasks : /\ tasks[t].kind \in GatedKinds
                         /\ tasks[t].pc = "done" /\ tasks[t].fail = NotFoundMsg

\* the creative task t ends in this step and sets the step to COMPLETED
CompletesCreative(t) ==
    /\ tasks'[t].kind \in Creative
    /\ tasks[t].pc # "done" /\ tasks'[t].pc = "done"
    /\ tasks'[t].fail = NoError
    /\ state'.step = "COMPLETED"

\* C26: a creative task ends with the step COMPLETED only if media returned
\* by its remote call was stored as the creative output; in particular not
\* when the finished video operation carries no URI.
C26_CompletedHasMedia ==
    [][\A t \in Tasks : CompletesCreative(t) =>
          (creativeOutput' = t /\ tasks'[t].media \in {"image", "video"})]_vars

\* a handler that needs a file is invoked while none is selected
NoFileInvocation ==
    /\ state.file = NoFile
    /\ \E t \in Tasks : RunMultimodalAnalysis(t) \/ HandleAudioTranscription(t)

\* C25: the selected file and its preview URL change only when a file is
\* selected: mode changes, resets, and the start, completion or failure of
\* any operation leave both as they are; a change event of the file input
\* without a file, and document analysis or transcription invoked without a
\* file, change nothing and issue no request.
C25_FileFrame ==
    [][/\ (state'.file # state.file \/ state'.previewUrl # state.previewUrl)
            => \E f \in Files : FileChange(f)
       /\ (FileChange(NoFile) \/ NoFileInvocation)
            => (UNCHANGED uiVars /\ OutstandingCalls' = OutstandingCalls)]_vars

\* an analysis was started on file 1 and has ended, file 2 has been selected
\* since and the mode changed
C25_Witness ==
    /\ state.file = 2 /\ state.previewUrl = 2
    /\ mode = "CHAT"
    /\ \E t \in Tasks : tasks[t].kind = "doc" /\ tasks[t].pc = "done" /\ tasks[t].file = 1

\* the history alternates user, ai, ... and every ai entry follows its own
\* user entry
Alternates(h) ==
    \A i \in 1..Len(h) :
        /\ h[i].role = (IF i % 2 = 1 THEN "user" ELSE "ai")
        /\ i % 2 = 0 => h[i].task = h[i - 1].task

\* a step that appends a user entry or issues a chat request
ChatSends ==
    \/ /\ Len(chatHistory') = Len(chatHistory) + 1
       /\ chatHistory'[Len(chatHistory')].role = "user"
    \/ \E t \in Tasks : tasks'[t].kind = "chat" /\ Issues(t)

\* C24: the chat history alternates user, ai, user, ai, ... starting with a
\* user entry, and every ai entry directly follows the user entry it answers
\* (so there are never more ai entries than user entries), whatever the order
\* of sends, replies, failures and resets; a blank input adds no entry and
\* issues no request.
C24_ChatAlternates == Alternates(chatHistory)

\* the part of C24 about blank input, which holds: an entry is added and
\* a request issued only when the input is not blank
C24_BlankSendsNothing == [][ChatSends => Trim(chatInput) # ""]_vars

\* every buffer started on the audio context: the live chunks and the
\* narrations
Started == scheduled \o tts.started

\* C22: any two audio buffers started on the audio context, live chunks and
\* narration buffers alike, occupy disjoint intervals [start, start + duration).
C22_NoOverlap ==
    \A i, j \in 1..Len(Started) :
        i # j => \/ ChunkEnd(Started[i]) <= Started[j].start
                 \/ ChunkEnd(Started[j]) <= Started[i].start

\* C23: the microphone frames of a session reach sendRealtimeInput in the
\* order in which they were captured, each at most once, and none before the
\* connection of that session was established.
C23_FramesInOrder ==
    \A s \in Sessions :
        /\ \A i \in 1..Len(outbound[s]) : outbound[s][i] \in 1..Captured(s)
        /\ \A i, j \in 1..Len(outbound[s]) : i < j => outbound[s][i] < outbound[s][j]
        /\ outbound[s] # <<>> => sessSt[s] \in {"open", "closed"}

\* two frames of one session were sent
C23_Witness ==
    \E s \in Sessions : Len(outbound[s]) = 2 /\ sessSt[s] = "open"

\* the start of the session s fails in this step
StartFails(s) ==
    /\ sessSt[s] \in {"mic", "connecting"}
    /\ sessSt'[s] \in {"micDenied", "connectFailed"}

\* C21: when the start of a live session fails (the microphone is refused,
\* or the connection after the stream was obtained), isLiveActive and
\* liveSessionRef are left as they were and no stream of that start stays
\* captured.
C21_FailedStartClean ==
    [][\A s \in Sessions : StartFails(s) =>
        /\ isLiveActive' = isLiveActive
        /\ liveSessionRef' = liveSessionRef
        /\ liveSessionRef' # s
        /\ sessStream'[s] # "live"]_vars

InitJSON ==
    JsonInit /\ ReqIdle /\ B64Idle /\ PcmIdle /\ DecIdle /\ LiveInit /\ UiIdle

SpecJSON == InitJSON /\ [][NextJSON]_vars

(***************************************************************************)
(* Properties of extractJSON                                               *)
(***************************************************************************)
FirstOpen(s) == IF BracePositions(s, "{") = {} THEN 0 ELSE Min(BracePositions(s, "{"))

LastClose(s) == IF BracePositions(s, "}") = {} THEN 0 ELSE Max(BracePositions(s, "}"))

\* nesting depth after position i, counted from position a
RECURSIVE Depth(_, _, _)
Depth(s, a, i) ==
    IF i < a THEN 0
    ELSE Depth(s, a, i - 1)
         + (IF s[i] = "{" THEN 1 ELSE IF s[i] = "}" THEN -1 ELSE 0)

\* position of the "}" that balances the first "{", 0 when there is none
MatchingClose(s) ==
    LET a == FirstOpen(s) IN
    IF a = 0 THEN 0
    ELSE LET ends == {i \in a..Len(s) : Depth(s, a, i) = 0} IN
         IF ends = {} THEN 0 ELSE Min(ends)

\* the first brace-delimited block: first "{" to the "}" matching it
FirstBlock(s) == SubSeq(s, FirstOpen(s), MatchingClose(s))

NotJSON(s) == ~JSONparse(s).ok

\* C3 as stated: a text that is not valid JSON yields the parse of its first
\* brace-delimited block, also when further braces follow that block.
C3_FirstBlockParsed ==
    (jsonPc = "done" /\ NotJSON(jsonText) /\ MatchingClose(jsonText) # 0
        /\ JSONparse(FirstBlock(jsonText)).ok)
    => jsonOut = Returned(JSONparse(FirstBlock(jsonText)).val)

\* C3 amended: for a text that is not valid JSON and has a "}" after its first
\* "{", extractJSON takes the region from the first "{" to the LAST "}": it
\* returns the parse of the first block only when that block ends at the last
\* "}" of the text and is valid JSON; when a "}" follows the first block (or
\* the block is not valid JSON) it throws "Failed to parse response JSON".
C3_GreedyRegion ==
    (jsonPc = "done" /\ NotJSON(jsonText) /\ FirstOpen(jsonText) # 0
        /\ LastClose(jsonText) > FirstOpen(jsonText))
    => IF /\ MatchingClose(jsonText) = LastClose(jsonText)
          /\ JSONparse(FirstBlock(jsonText)).ok
       THEN jsonOut = Returned(JSONparse(FirstBlock(jsonText)).val)
       ELSE jsonOut = Thrown("Failed to parse response JSON")

\* a text whose valid first block is followed by further braces has been
\* handed to extractJSON, which threw
C3_Witness ==
    /\ jsonPc = "done"
    /\ NotJSON(jsonText)
    /\ MatchingClose(jsonText) # 0
    /\ MatchingClose(jsonText) < LastClose(jsonText)
    /\ JSONparse(FirstBlock(jsonText)).ok
    /\ jsonOut = Thrown("Failed to parse response JSON")

\* text of a markdown fence: back-ticks and a language tag ("t"), white space
FenceChars == {"t", "w"}

\* the text is a JSON object with fence text before and after it
IsFenced(s) ==
    /\ FirstOpen(s) # 0
    /\ LastClose(s) > FirstOpen(s)
    /\ \A i \in 1..Len(s) :
          (i < FirstOpen(s) \/ i > LastClose(s)) => s[i] \in FenceChars
    /\ JSONparse(SubSeq(s, FirstOpen(s), LastClose(s))).ok

FencedObject(s) == SubSeq(s, FirstOpen(s), LastClose(s))

\* C6: extractJSON of a valid JSON object wrapped in a markdown fence returns
\* the value that extractJSON returns for the object alone.
C6_FenceTolerance ==
    (jsonPc = "done" /\ IsFenced(jsonText))
    => /\ jsonOut.ok
       /\ jsonOut = extractJSON(FencedObject(jsonText))
       /\ jsonOut.val = JSONparse(FencedObject(jsonText)).val

\* a nested object between a fence opener and a fence closer was extracted
C6_Witness ==
    /\ jsonPc = "done"
    /\ IsFenced(jsonText)
    /\ jsonText[1] = "t"
    /\ jsonText[Len(jsonText)] = "t"
    /\ Len(FencedObject(jsonText)) > 2
    /\ jsonOut.ok

\* the text has a "{" with a "}" somewhere after it
HasBraceRegion(s) == FirstOpen(s) # 0 /\ LastClose(s) > FirstOpen(s)

\* C15: a text that is valid JSON is returned parsed; a text that is not
\* and has no "{" followed by a "}" fails with "No valid JSON found in
\* response"; a text that is not and whose region from the first "{" to the
\* last "}" is not valid JSON fails with "Failed to parse response JSON"; a
\* failure returns no value.
C15_ErrorOutcomes ==
    jsonPc = "done" =>
        /\ JSONparse(jsonText).ok => jsonOut = Returned(JSONparse(jsonText).val)
        /\ (NotJSON(jsonText) /\ ~HasBraceRegion(jsonText))
              => jsonOut = Thrown("No valid JSON found in response")
        /\ (NotJSON(jsonText) /\ HasBraceRegion(jsonText)
                /\ NotJSON(FencedObject(jsonText)))
              => jsonOut = Thrown("Failed to parse response JSON")
        /\ ~jsonOut.ok => jsonOut.val = NoValue

\* a text with both braces, the closing ones all before the opening ones,
\* was rejected for having no JSON in it
C15_Witness ==
    /\ jsonPc = "done"
    /\ FirstOpen(jsonText) # 0
    /\ LastClose(jsonText) # 0
    /\ ~HasBraceRegion(jsonText)
    /\ jsonOut = Thrown("No valid JSON found in response")

(***************************************************************************)
(* Properties of the request of processMultimodalIntel                     *)
(***************************************************************************)
Occurrences(q, x) == Cardinality({i \in 1..Len(q) : q[i] = x})

\* C12: for every combination of useSearch, useMaps and useThinking the
\* tools list holds googleSearch (once) iff useSearch, googleMaps (once) iff
\* useMaps and nothing else; responseMimeType is application/json iff
\* useMaps is false and is not set otherwise; thinkingConfig carries the
\* budget 32768 iff useThinking and is not set otherwise; the model is
\* gemini-2.5-flash-latest iff useMaps and gemini-3-pro-preview otherwise.
C12_RequestBuilding ==
    reqPc = "sent" =>
        LET search == reqConfig.useSearch = "true"
            maps == reqConfig.useMaps = "true"
            thinking == reqConfig.useThinking = "true"
            tools == reqOut.config.tools IN
        /\ Occurrences(tools, "googleSearch") = (IF search THEN 1 ELSE 0)
        /\ Occurrences(tools, "googleMaps") = (IF maps THEN 1 ELSE 0)
        /\ \A i \in 1..Len(tools) : tools[i] \in {"googleSearch", "googleMaps"}
        /\ reqOut.config.responseMimeType
              = (IF maps THEN <<>> ELSE <<"application/json">>)
        /\ reqOut.config.thinkingConfig = (IF thinking THEN <<32768>> ELSE <<>>)
        /\ reqOut.model = (IF maps THEN "gemini-2.5-flash-latest"
                           ELSE "gemini-3-pro-preview")

\* the request was built with the three flags set: both tools, the flash
\* model, a thinking budget and no response type
C12_Witness ==
    /\ reqPc = "sent"
    /\ reqConfig = [useSearch |-> "true", useMaps |-> "true", useThinking |-> "true"]
    /\ Len(reqOut.config.tools) = 2
    /\ reqOut.config.responseMimeType = <<>>

(***************************************************************************)
(* Properties of encodeAudio and decodeBase64Audio                         *)
(***************************************************************************)
\* C13: decodeBase64Audio(encodeAudio(b)) has the length of b and the byte
\* of b at every index, for every byte array b, the empty one included.
C13_Base64RoundTrip ==
    b64Pc = "decoded" =>
        /\ Len(b64Back) = Len(b64Bytes)
        /\ \A i \in 1..Len(b64Bytes) : b64Back[i] = b64Bytes[i]

\* an array whose length is no multiple of three, holding a byte above 127,
\* went through both functions; its encoding ends with padding
C13_Witness ==
    /\ b64Pc = "decoded"
    /\ Len(b64Bytes) = 2
    /\ b64Bytes[1] = 255
    /\ b64Text[Len(b64Text)] = Pad
    /\ b64Back = b64Bytes

====
